---- MODULE Spec2Model ----
(***************************************************************************)
(* locache: an in-memory key/value cache with a fixed TTL.                 *)
(*                                                                         *)
(* The repository holds two generations of the Cache type:                 *)
(*   - the map cache   (itemsMap + purgeLog, per-item RWMutex), modelled   *)
(*     by the definitions without prefix;                                  *)
(*   - the list cache  (index + items list, Cache.mtx, per-item Mutex),    *)
(*     modelled by the definitions prefixed with List.                     *)
(* Every caller is a process p; one action is one atomic step of a call.   *)
(* A step that takes a lock and releases it without blocking in between    *)
(* is one action; a lock held across a blocking point is state.            *)
(***************************************************************************)
EXTENDS Integers, Sequences, FiniteSets, TLC

Procs == {"p1", "p2", "p3"}
\* the callers of the specifications in which any call may be made
Workers == {"p1", "p2"}
Keys == {"k1", "k2"}
Vals == {"v1", "v2"}

\* the zero value of the Value type, the nil item pointer, the zero time.Time
Zero == "zero"
NoItem == 0
NoKey == "nokey"
ZeroTime == 0

\* the clock runs over 1..MaxTime, the TTL of an instance is in 0..MaxTTL,
\* and at most MaxCalls calls are started in one behaviour
MaxTime == 3
MaxTTL == 2
MaxCalls == 3
MaxInterval == 2
MaxScheds == 2

Free == "free"
\* an error is the chain of its messages, outermost first; nil is the empty chain
NilErr == <<>>
SomeErr == <<"some error">>

\* fmt.Errorf("msg: %w", err)
Wrap(msg, err) == <<msg>> \o err

\* an update function: what it returns when it is invoked (value, set, error)
UpdateFns ==
    [val : Vals, set : {TRUE}, err : {NilErr}]
        \cup {[val |-> Zero, set |-> FALSE, err |-> NilErr],
              [val |-> Zero, set |-> FALSE, err |-> SomeErr],
              [val |-> "v1", set |-> TRUE, err |-> SomeErr]}

\* a refresh function: what it returns when it is invoked
RefreshFns == [val : Vals, err : {NilErr}] \cup {[val |-> Zero, err |-> SomeErr]}

NoOp == [op |-> "None", val |-> Zero, exp |-> ZeroTime]
NoRes == [op |-> "None"]

VARIABLES
    now,        \* the reading of the clock (var now = time.Now)
    itemsTTL,   \* Cache.itemsTTL / Cache.ttl
    calls,      \* number of calls started so far
    data,       \* ItemsMap.data: key -> item pointer (index into items)
    items,      \* the heap of Item structs ever allocated: val, exp, mtx
    purgeLog,   \* PurgeLog.list: sequence of PurgeItem
    index,      \* list cache, Cache.index: key -> element (index into elems)
    order,      \* list cache, Cache.items: the elements of the list, front first
    elems,      \* list cache, the Items ever allocated: key, val, exp, set, mtx
    cmtx,       \* list cache, Cache.mtx: the process holding it in write mode
    call,       \* per process, the call it is in: pc, key, arg (the value or the
                \* refresh function), item (local pointer), itemIsNew, exp (the
                \* expiry the call has written, or the now argument of
                \* PurgeLog.Purge), cur and head (the element and head variables
                \* of a sweep, as positions)
    res,        \* per process: what its last call returned
    refreshCalls, \* how many times a refresh function has been invoked
    lastOp,     \* per key: the last operation that changed the key's entry
    ctxDone,    \* Cache.ctx has been cancelled
    sched,      \* per goroutine that SchedulePurge starts: pc, the purge interval
                \* and the instant its time.After timer was started
    done        \* per call of SchedulePurge, the channel it returns: "none"
                \* before the call, then "open", then "closed"

mapVars == <<data, items, purgeLog>>
schedVars == <<ctxDone, sched, done>>
listVars == <<index, order, elems, cmtx>>
vars == <<now, itemsTTL, calls, data, items, purgeLog, index, order, elems, cmtx,
          call, res, refreshCalls, lastOp, ctxDone, sched, done>>

\* the goroutines SchedulePurge can start
Scheds == 1..MaxScheds

\* a goroutine SchedulePurge has not started yet
NoSched == [pc |-> "none", interval |-> 0, armed |-> ZeroTime]

Idle == [pc |-> "idle", key |-> NoKey, arg |-> Zero, item |-> NoItem, itemIsNew |-> FALSE,
         exp |-> ZeroTime, cur |-> 0, head |-> 0]

pc(p) == call[p].pc

----
\* Item.IsExpired (map cache): now().After(i.exp)
IsExpired(i) == now > items[i].exp

\* a faulty Item.IsValid: the instant of expiry counts as expired
IsValidStrict(i) == ~(items[i].exp = ZeroTime \/ now >= items[i].exp)

\* Item.IsValid (map cache): !(i.exp.IsZero() || i.IsExpired())
IsValid(i) == ~(items[i].exp = ZeroTime \/ IsExpired(i))

\* what Cache.Get returns for the item it holds, read under item.RLock
ItemRead(i) == IF IsValid(i) THEN <<items[i].val, TRUE>> ELSE <<Zero, FALSE>>

\* what a Get(k) that ran alone would return in the current state
Observe(k) == IF data[k] = NoItem THEN <<Zero, FALSE>> ELSE ItemRead(data[k])

\* a faulty NewItem: the expiry is not stored
NewItemNoExp(val, exp, holder) == [val |-> val, exp |-> ZeroTime, mtx |-> holder]

\* NewItem / &Item{}: a fresh item at the end of the heap
NewItem(val, exp, holder) == [val |-> val, exp |-> exp, mtx |-> holder]

\* a process starts a call
Begin(p) == pc(p) = "idle" /\ calls < MaxCalls /\ calls' = calls + 1

\* the call moves on to c
Goto(p, c) == call' = [call EXCEPT ![p] = c] /\ res' = [res EXCEPT ![p] = NoRes]

\* the call returns r; its locals go out of scope
Return(p, r) == call' = [call EXCEPT ![p] = Idle] /\ res' = [res EXCEPT ![p] = r]

\* ItemsMap.Set
ItemsMapSet(k, i) == [data EXCEPT ![k] = i]

\* a faulty ItemsMap.Delete: the key stays in the map
ItemsMapDeleteNothing(k) == data

\* ItemsMap.Delete
ItemsMapDelete(k) == [data EXCEPT ![k] = NoItem]

\* PurgeLog.Add
Add(k, exp) == Append(purgeLog, [key |-> k, exp |-> exp])

\* item.Unlock()
Unlock(i) == [items EXCEPT ![i].mtx = Free]

----
\* Cache.Get, first half: c.itemsMap.Get(key)
Get_Lookup(p, k) ==
    /\ Begin(p)
    /\ IF data[k] = NoItem
       THEN Return(p, [op |-> "Get", key |-> k, val |-> Zero, ok |-> FALSE])
       ELSE Goto(p, [Idle EXCEPT !.pc = "Get_Read", !.key = k, !.item = data[k]])
    /\ UNCHANGED <<schedVars, listVars, now, itemsTTL, mapVars, refreshCalls, lastOp>>

\* Cache.Get, second half: item.RLock(); IsValid; item.val; item.RUnlock()
Get_Read(p) ==
    /\ pc(p) = "Get_Read"
    /\ items[call[p].item].mtx = Free
    /\ Return(p, [op |-> "Get", key |-> call[p].key, val |-> ItemRead(call[p].item)[1],
                  ok |-> ItemRead(call[p].item)[2]])
    /\ UNCHANGED <<schedVars, listVars, now, itemsTTL, calls, mapVars, refreshCalls, lastOp>>

\* Cache.Set, first half: NewItem(value, now().Add(ttl)); item.Lock(); itemsMap.Set
Set_Store(p, k, v) ==
    /\ Begin(p)
    /\ items' = Append(items, NewItem(v, now + itemsTTL, p))
    /\ data' = ItemsMapSet(k, Len(items) + 1)
    /\ lastOp' = [lastOp EXCEPT ![k] = [op |-> "Set", val |-> v, exp |-> now + itemsTTL]]
    /\ Goto(p, [Idle EXCEPT !.pc = "Set_Add", !.key = k, !.arg = v, !.item = Len(items) + 1])
    /\ UNCHANGED <<schedVars, listVars, now, itemsTTL, purgeLog, refreshCalls>>

\* Cache.Set, second half: purgeLog.Add(key, item.exp); item.Unlock()
Set_Add(p) ==
    /\ pc(p) = "Set_Add"
    /\ purgeLog' = Add(call[p].key, items[call[p].item].exp)
    /\ items' = Unlock(call[p].item)
    /\ Return(p, [op |-> "Set", key |-> call[p].key])
    /\ UNCHANGED <<schedVars, listVars, now, itemsTTL, calls, data, refreshCalls, lastOp>>

\* ItemsMap.GetOrCreate, called first in Cache.GetOrRefresh
GetOrRefresh_GetOrCreate(p, k, fn) ==
    /\ Begin(p)
    /\ IF data[k] = NoItem
       THEN /\ items' = Append(items, NewItem(Zero, ZeroTime, Free))
            /\ data' = ItemsMapSet(k, Len(items) + 1)
            /\ lastOp' = [lastOp EXCEPT ![k] = [NoOp EXCEPT !.op = "Placeholder"]]
            /\ Goto(p, [Idle EXCEPT !.pc = "GetOrRefresh_Lock", !.key = k, !.arg = fn,
                                    !.item = Len(items) + 1, !.itemIsNew = TRUE])
       ELSE /\ Goto(p, [Idle EXCEPT !.pc = "GetOrRefresh_Lock", !.key = k, !.arg = fn,
                                    !.item = data[k]])
            /\ UNCHANGED <<items, data, lastOp>>
    /\ UNCHANGED <<schedVars, listVars, now, itemsTTL, purgeLog, refreshCalls>>

\* Cache.GetOrRefresh: item.Lock(); if item.IsValid() { unlock, return val };
\* otherwise refresh() is invoked with the item lock held
GetOrRefresh_Lock(p) ==
    /\ pc(p) = "GetOrRefresh_Lock"
    /\ items[call[p].item].mtx = Free
    /\ IF IsValid(call[p].item)
       THEN /\ Return(p, [op |-> "GetOrRefresh", key |-> call[p].key,
                          val |-> items[call[p].item].val,
                          err |-> NilErr])
            /\ UNCHANGED <<items, refreshCalls>>
       ELSE /\ items' = [items EXCEPT ![call[p].item].mtx = p]
            /\ refreshCalls' = refreshCalls + 1
            /\ Goto(p, [call[p] EXCEPT !.pc = "GetOrRefresh_Refresh"])
    /\ UNCHANGED <<schedVars, listVars, now, itemsTTL, calls, data, purgeLog, lastOp>>

\* a faulty error path: the placeholder is never deleted
CleanupOnFailureNever(p) == data

\* a faulty error path: the key is deleted whether or not the item was new
CleanupOnFailureAlways(p) == ItemsMapDelete(call[p].key)

\* Cache.GetOrRefresh, the error path: if itemIsNew { c.itemsMap.Delete(key) }
CleanupOnFailure(p) == IF call[p].itemIsNew THEN ItemsMapDelete(call[p].key) ELSE data

\* Cache.GetOrRefresh: refresh() returns. On an error: delete the key when the
\* item was new, unlock, return the wrapped error. Otherwise: item.val, item.exp,
\* itemsMap.Set(key, item)
GetOrRefresh_Refresh(p) ==
    /\ pc(p) = "GetOrRefresh_Refresh"
    /\ IF call[p].arg.err # NilErr
       THEN /\ data' = CleanupOnFailure(p)
            /\ items' = Unlock(call[p].item)
            /\ lastOp' = IF call[p].itemIsNew
                         THEN [lastOp EXCEPT ![call[p].key] = [NoOp EXCEPT !.op = "Cleanup"]]
                         ELSE lastOp
            /\ Return(p, [op |-> "GetOrRefresh", key |-> call[p].key, val |-> Zero,
                          err |-> Wrap("get val", call[p].arg.err)])
       ELSE /\ items' = [items EXCEPT ![call[p].item].val = call[p].arg.val,
                                      ![call[p].item].exp = now + itemsTTL]
            /\ data' = ItemsMapSet(call[p].key, call[p].item)
            /\ lastOp' = [lastOp EXCEPT ![call[p].key] =
                             [op |-> "Refresh", val |-> call[p].arg.val, exp |-> now + itemsTTL]]
            /\ Goto(p, [call[p] EXCEPT !.pc = "GetOrRefresh_Add"])
    /\ UNCHANGED <<schedVars, listVars, now, itemsTTL, calls, purgeLog, refreshCalls>>

\* Cache.GetOrRefresh, success tail: purgeLog.Add(key, item.exp); item.Unlock()
GetOrRefresh_Add(p) ==
    /\ pc(p) = "GetOrRefresh_Add"
    /\ purgeLog' = Add(call[p].key, items[call[p].item].exp)
    /\ items' = Unlock(call[p].item)
    /\ Return(p, [op |-> "GetOrRefresh", key |-> call[p].key, val |-> call[p].arg.val,
                  err |-> NilErr])
    /\ UNCHANGED <<schedVars, listVars, now, itemsTTL, calls, data, refreshCalls, lastOp>>

\* Cache.Delete, first half: c.itemsMap.Get(key)
Delete_Lookup(p, k) ==
    /\ Begin(p)
    /\ IF data[k] = NoItem
       THEN Return(p, [op |-> "Delete", key |-> k])
       ELSE Goto(p, [Idle EXCEPT !.pc = "Delete_Locked", !.key = k, !.item = data[k]])
    /\ UNCHANGED <<schedVars, listVars, now, itemsTTL, mapVars, refreshCalls, lastOp>>

\* Cache.Delete, second half: item.Lock(); itemsMap.Delete(key); item.Unlock()
Delete_Locked(p) ==
    /\ pc(p) = "Delete_Locked"
    /\ items[call[p].item].mtx = Free
    /\ data' = ItemsMapDelete(call[p].key)
    /\ lastOp' = [lastOp EXCEPT ![call[p].key] = [NoOp EXCEPT !.op = "Delete"]]
    /\ Return(p, [op |-> "Delete", key |-> call[p].key])
    /\ UNCHANGED <<schedVars, listVars, now, itemsTTL, calls, items, purgeLog, refreshCalls>>

\* ItemsMap.GetOrCreate, called first in Cache.Update
Update_GetOrCreate(p, k, fn) ==
    /\ Begin(p)
    /\ IF data[k] = NoItem
       THEN /\ items' = Append(items, NewItem(Zero, ZeroTime, Free))
            /\ data' = ItemsMapSet(k, Len(items) + 1)
            /\ lastOp' = [lastOp EXCEPT ![k] = [NoOp EXCEPT !.op = "Placeholder"]]
            /\ Goto(p, [Idle EXCEPT !.pc = "Update_Lock", !.key = k, !.arg = fn,
                                    !.item = Len(items) + 1, !.itemIsNew = TRUE])
       ELSE /\ Goto(p, [Idle EXCEPT !.pc = "Update_Lock", !.key = k, !.arg = fn,
                                    !.item = data[k]])
            /\ UNCHANGED <<items, data, lastOp>>
    /\ UNCHANGED <<schedVars, listVars, now, itemsTTL, purgeLog, refreshCalls>>

\* Cache.Update: item.Lock(); update(item.val, !itemIsNew) is invoked with the
\* item lock held
Update_Lock(p) ==
    /\ pc(p) = "Update_Lock"
    /\ items[call[p].item].mtx = Free
    /\ items' = [items EXCEPT ![call[p].item].mtx = p]
    /\ Goto(p, [call[p] EXCEPT !.pc = "Update_Apply"])
    /\ UNCHANGED <<schedVars, listVars, now, itemsTTL, calls, data, purgeLog, refreshCalls, lastOp>>

\* a faulty cleanup: the placeholder is deleted on an error only
UpdateCleanupOnError(p) ==
    IF call[p].itemIsNew /\ call[p].arg.err # NilErr THEN ItemsMapDelete(call[p].key) ELSE data

\* Cache.Update: if itemIsNew && (err != nil || !set) { c.itemsMap.Delete(key) }
UpdateCleanup(p) ==
    IF call[p].itemIsNew /\ (call[p].arg.err # NilErr \/ ~call[p].arg.set)
    THEN ItemsMapDelete(call[p].key)
    ELSE data

\* Cache.Update: update() returns. The placeholder of a new key is deleted when
\* nothing is to be stored; an error is returned wrapped; with set the item gets
\* val and exp and is put in the map (and not in the purge log); item.Unlock()
Update_Apply(p) ==
    /\ pc(p) = "Update_Apply"
    /\ IF call[p].arg.err = NilErr /\ call[p].arg.set
       THEN /\ items' = [items EXCEPT ![call[p].item].val = call[p].arg.val,
                                      ![call[p].item].exp = now + itemsTTL,
                                      ![call[p].item].mtx = Free]
            /\ data' = ItemsMapSet(call[p].key, call[p].item)
            /\ lastOp' = [lastOp EXCEPT ![call[p].key] =
                             [op |-> "Update", val |-> call[p].arg.val, exp |-> now + itemsTTL]]
       ELSE /\ items' = Unlock(call[p].item)
            /\ data' = UpdateCleanup(p)
            /\ lastOp' = IF UpdateCleanup(p) # data
                         THEN [lastOp EXCEPT ![call[p].key] = [NoOp EXCEPT !.op = "Cleanup"]]
                         ELSE lastOp
    /\ Return(p, [op |-> "Update", key |-> call[p].key,
                  err |-> IF call[p].arg.err = NilErr THEN NilErr
                          ELSE Wrap("update val", call[p].arg.err),
                  exists |-> ~call[p].itemIsNew])
    /\ UNCHANGED <<schedVars, listVars, now, itemsTTL, calls, purgeLog, refreshCalls>>

\* Cache.DeleteExpired, first half: c.itemsMap.Get(key)
DeleteExpired_Lookup(p, k) ==
    /\ Begin(p)
    /\ IF data[k] = NoItem
       THEN Return(p, [op |-> "DeleteExpired", key |-> k])
       ELSE Goto(p, [Idle EXCEPT !.pc = "DeleteExpired_Locked", !.key = k, !.item = data[k]])
    /\ UNCHANGED <<schedVars, listVars, now, itemsTTL, mapVars, refreshCalls, lastOp>>

\* Cache.DeleteExpired, under item.Lock(): if item.IsExpired() { itemsMap.Delete(key) }
DeleteIfExpired(k, i) == IF IsExpired(i) THEN ItemsMapDelete(k) ELSE data

\* Cache.DeleteExpired, second half: item.Lock(); delete if expired; item.Unlock()
DeleteExpired_Locked(p) ==
    /\ pc(p) = "DeleteExpired_Locked"
    /\ items[call[p].item].mtx = Free
    /\ data' = DeleteIfExpired(call[p].key, call[p].item)
    /\ lastOp' = IF IsExpired(call[p].item) /\ data[call[p].key] # NoItem
                 THEN [lastOp EXCEPT ![call[p].key] = [NoOp EXCEPT !.op = "DeleteExpired"]]
                 ELSE lastOp
    /\ Return(p, [op |-> "DeleteExpired", key |-> call[p].key])
    /\ UNCHANGED <<schedVars, listVars, now, itemsTTL, calls, items, purgeLog, refreshCalls>>

\* list.MoveToFront(head) on the purge log
MoveToFront(l, h) == <<l[h]>> \o SubSeq(l, 1, h - 1) \o SubSeq(l, h + 1, Len(l))

\* a process is inside Cache.Purge
InPurge(p) == pc(p) \in {"Purge_Next", "Purge_DeleteExpired"}

\* Cache.Purge: c.purgeLog.Purge(now(), c.DeleteExpired) starts at the front of
\* the log. One goroutine at a time sweeps the log
Purge_Begin(p) ==
    /\ Begin(p)
    /\ \A q \in Procs : ~InPurge(q)
    /\ Goto(p, [Idle EXCEPT !.pc = "Purge_Next", !.exp = now, !.cur = 1])
    /\ UNCHANGED <<schedVars, listVars, now, itemsTTL, mapVars, refreshCalls, lastOp>>

\* PurgeLog.Purge, the loop head: at the end of the list, or at a record whose
\* exp is after now, the loop is left, head (if any) is moved to the front and
\* Purge returns; otherwise purge(walItem.key) is called, whose first half is
\* c.itemsMap.Get(key)
Purge_Next(p) ==
    /\ pc(p) = "Purge_Next"
    /\ IF call[p].cur > Len(purgeLog) \/ purgeLog[call[p].cur].exp > call[p].exp
       THEN /\ purgeLog' = IF call[p].head # 0 THEN MoveToFront(purgeLog, call[p].head)
                           ELSE purgeLog
            /\ Return(p, [op |-> "Purge", key |-> NoKey])
       ELSE /\ IF data[purgeLog[call[p].cur].key] = NoItem
               THEN Goto(p, [call[p] EXCEPT !.head = call[p].cur, !.cur = call[p].cur + 1])
               ELSE Goto(p, [call[p] EXCEPT !.pc = "Purge_DeleteExpired",
                                            !.key = purgeLog[call[p].cur].key,
                                            !.item = data[purgeLog[call[p].cur].key]])
            /\ UNCHANGED purgeLog
    /\ UNCHANGED <<schedVars, listVars, now, itemsTTL, calls, data, items, refreshCalls, lastOp>>

\* PurgeLog.Purge calling Cache.DeleteExpired, second half; then head = element
\* and element = element.Next()
Purge_DeleteExpired(p) ==
    /\ pc(p) = "Purge_DeleteExpired"
    /\ items[call[p].item].mtx = Free
    /\ data' = DeleteIfExpired(call[p].key, call[p].item)
    /\ lastOp' = IF IsExpired(call[p].item) /\ data[call[p].key] # NoItem
                 THEN [lastOp EXCEPT ![call[p].key] = [NoOp EXCEPT !.op = "DeleteExpired"]]
                 ELSE lastOp
    /\ Goto(p, [call[p] EXCEPT !.pc = "Purge_Next", !.key = NoKey, !.item = NoItem,
                               !.head = call[p].cur, !.cur = call[p].cur + 1])
    /\ UNCHANGED <<schedVars, listVars, now, itemsTTL, calls, items, purgeLog, refreshCalls>>

\* the clock advances
Tick ==
    /\ now < MaxTime
    /\ now' = now + 1
    /\ UNCHANGED <<schedVars, listVars, itemsTTL, calls, mapVars, call, res, refreshCalls, lastOp>>

----
(***************************************************************************)
(* The list cache.                                                         *)
(***************************************************************************)
Range(l) == {l[n] : n \in 1..Len(l)}

\* a faulty Item.IsExpired: the instant of expiry counts as expired
ListIsExpiredInclusive(e) == elems[e].exp <= now

\* Item.IsExpired (list cache): i.exp.Before(now())
ListIsExpired(e) == elems[e].exp < now

\* Item.IsValid (list cache): i.set && !i.IsExpired()
ListIsValid(e) == elems[e].set /\ ~ListIsExpired(e)

\* list.PushBack(&Item{...}) in Set and getOrCreateElement
PushBack(k, v, exp, set) ==
    /\ elems' = Append(elems, [key |-> k, val |-> v, exp |-> exp, set |-> set, mtx |-> Free])
    /\ order' = Append(order, Len(elems) + 1)
    /\ index' = [index EXCEPT ![k] = Len(elems) + 1]

\* a faulty MoveToBack: an element that was removed from the list is put back
MoveToBackAlways(l, e) == Append(SelectSeq(l, LAMBDA x : x # e), e)

\* list.MoveToBack: nothing happens for an element that is not in the list
MoveToBack(l, e) ==
    IF e \in Range(l) THEN Append(SelectSeq(l, LAMBDA x : x # e), e) ELSE l

\* list.Remove
Remove(l, e) == SelectSeq(l, LAMBDA x : x # e)

\* Cache.Get (list cache): the whole body runs under c.mtx.RLock(), which keeps
\* Set, Del and Purge out. Its reads of set and exp race with the writes of
\* GetOrRefresh, which holds only the item lock: each read sees the field before
\* or after the write, that is, the item as it is at one of the writer's steps
ListGet(p, k) ==
    /\ Begin(p)
    /\ cmtx = Free
    /\ Return(p, IF index[k] # NoItem /\ ListIsValid(index[k])
                 THEN [op |-> "Get", key |-> k, val |-> elems[index[k]].val, ok |-> TRUE]
                 ELSE [op |-> "Get", key |-> k, val |-> Zero, ok |-> FALSE])
    /\ UNCHANGED <<schedVars, mapVars, listVars, now, itemsTTL, refreshCalls, lastOp>>

\* Cache.Set (list cache): c.mtx.Lock(); a new key is pushed back and the call
\* returns; for a key of the index, item.set = true is written
ListSet_Begin(p, k, v) ==
    /\ Begin(p)
    /\ cmtx = Free
    /\ IF index[k] = NoItem
       THEN /\ PushBack(k, v, now + itemsTTL, TRUE)
            /\ lastOp' = [lastOp EXCEPT ![k] = [op |-> "Set", val |-> v, exp |-> now + itemsTTL]]
            /\ Return(p, [op |-> "Set", key |-> k])
            /\ UNCHANGED cmtx
       ELSE /\ elems' = [elems EXCEPT ![index[k]].set = TRUE]
            /\ cmtx' = p
            /\ Goto(p, [Idle EXCEPT !.pc = "ListSet_Val", !.key = k, !.arg = v,
                                    !.item = index[k]])
            /\ UNCHANGED <<index, order, lastOp>>
    /\ UNCHANGED <<schedVars, mapVars, now, itemsTTL, refreshCalls>>

\* Cache.Set (list cache): item.val = value
ListSet_Val(p) ==
    /\ pc(p) = "ListSet_Val"
    /\ elems' = [elems EXCEPT ![call[p].item].val = call[p].arg]
    /\ Goto(p, [call[p] EXCEPT !.pc = "ListSet_Exp"])
    /\ UNCHANGED <<schedVars, mapVars, index, order, cmtx, now, itemsTTL, calls, refreshCalls, lastOp>>

\* Cache.Set (list cache): item.exp = now().Add(c.ttl); MoveToBack; c.mtx.Unlock()
ListSet_Exp(p) ==
    /\ pc(p) = "ListSet_Exp"
    /\ elems' = [elems EXCEPT ![call[p].item].exp = now + itemsTTL]
    /\ order' = MoveToBack(order, call[p].item)
    /\ cmtx' = Free
    /\ lastOp' = [lastOp EXCEPT ![call[p].key] =
                     [op |-> "Set", val |-> call[p].arg, exp |-> now + itemsTTL]]
    /\ Return(p, [op |-> "Set", key |-> call[p].key])
    /\ UNCHANGED <<schedVars, mapVars, index, now, itemsTTL, calls, refreshCalls>>

\* Cache.Del
ListDel(p, k) ==
    /\ Begin(p)
    /\ cmtx = Free
    /\ IF index[k] # NoItem
       THEN /\ order' = Remove(order, index[k])
            /\ index' = [index EXCEPT ![k] = NoItem]
            /\ lastOp' = [lastOp EXCEPT ![k] = [NoOp EXCEPT !.op = "Delete"]]
       ELSE UNCHANGED <<order, index, lastOp>>
    /\ Return(p, [op |-> "Del", key |-> k])
    /\ UNCHANGED <<schedVars, mapVars, elems, cmtx, now, itemsTTL, refreshCalls>>

\* a faulty getOrCreateElement: it returns without releasing c.mtx, so the item
\* lock is asked for with the cache lock held
GetOrCreateElementHolding(p, k, fn) ==
    /\ Begin(p)
    /\ cmtx = Free
    /\ cmtx' = p
    /\ IF index[k] = NoItem
       THEN /\ PushBack(k, Zero, now + itemsTTL, FALSE)
            /\ Goto(p, [Idle EXCEPT !.pc = "ListGetOrRefresh_Lock", !.key = k, !.arg = fn,
                                    !.item = Len(elems) + 1])
       ELSE /\ Goto(p, [Idle EXCEPT !.pc = "ListGetOrRefresh_Lock", !.key = k, !.arg = fn,
                                    !.item = index[k]])
            /\ UNCHANGED <<elems, order, index>>
    /\ UNCHANGED <<schedVars, mapVars, now, itemsTTL, refreshCalls, lastOp>>

\* Cache.getOrCreateElement, called first in Cache.GetOrRefresh (list cache)
ListGetOrRefresh_getOrCreateElement(p, k, fn) ==
    /\ Begin(p)
    /\ cmtx = Free
    /\ IF index[k] = NoItem
       THEN /\ PushBack(k, Zero, now + itemsTTL, FALSE)
            /\ Goto(p, [Idle EXCEPT !.pc = "ListGetOrRefresh_Lock", !.key = k, !.arg = fn,
                                    !.item = Len(elems) + 1])
       ELSE /\ Goto(p, [Idle EXCEPT !.pc = "ListGetOrRefresh_Lock", !.key = k, !.arg = fn,
                                    !.item = index[k]])
            /\ UNCHANGED <<elems, order, index>>
    /\ UNCHANGED <<schedVars, mapVars, cmtx, now, itemsTTL, refreshCalls, lastOp>>

\* a faulty GetOrRefresh: the cache lock is taken together with the item lock
\* and kept while refresh() runs
GetOrRefreshLockBoth(p) ==
    /\ pc(p) = "ListGetOrRefresh_Lock"
    /\ elems[call[p].item].mtx = Free
    /\ cmtx = Free
    /\ IF ListIsValid(call[p].item)
       THEN /\ Return(p, [op |-> "GetOrRefresh", key |-> call[p].key,
                          val |-> elems[call[p].item].val, err |-> NilErr])
            /\ UNCHANGED <<elems, refreshCalls, cmtx>>
       ELSE /\ elems' = [elems EXCEPT ![call[p].item].mtx = p]
            /\ cmtx' = p
            /\ refreshCalls' = refreshCalls + 1
            /\ Goto(p, [call[p] EXCEPT !.pc = "ListGetOrRefresh_Refresh"])
    /\ UNCHANGED <<schedVars, mapVars, index, order, now, itemsTTL, calls, lastOp>>

\* Cache.GetOrRefresh (list cache): item.mtx.Lock(); a valid item is returned;
\* otherwise refresh() is invoked with the item lock held
ListGetOrRefresh_Lock(p) ==
    /\ pc(p) = "ListGetOrRefresh_Lock"
    /\ elems[call[p].item].mtx = Free
    /\ IF ListIsValid(call[p].item)
       THEN /\ Return(p, [op |-> "GetOrRefresh", key |-> call[p].key,
                          val |-> elems[call[p].item].val, err |-> NilErr])
            /\ UNCHANGED <<elems, refreshCalls>>
       ELSE /\ elems' = [elems EXCEPT ![call[p].item].mtx = p]
            /\ refreshCalls' = refreshCalls + 1
            /\ Goto(p, [call[p] EXCEPT !.pc = "ListGetOrRefresh_Refresh"])
    /\ UNCHANGED <<schedVars, mapVars, index, order, cmtx, now, itemsTTL, calls, lastOp>>

\* Cache.GetOrRefresh (list cache): refresh() returns. On an error: unlock and
\* return the wrapped error. Otherwise item.set = true is written
ListGetOrRefresh_Refresh(p) ==
    /\ pc(p) = "ListGetOrRefresh_Refresh"
    /\ IF call[p].arg.err # NilErr
       THEN /\ elems' = [elems EXCEPT ![call[p].item].mtx = Free]
            /\ Return(p, [op |-> "GetOrRefresh", key |-> call[p].key, val |-> Zero,
                          err |-> Wrap("refresh val", call[p].arg.err)])
       ELSE /\ elems' = [elems EXCEPT ![call[p].item].set = TRUE]
            /\ Goto(p, [call[p] EXCEPT !.pc = "ListGetOrRefresh_Val"])
    /\ UNCHANGED <<schedVars, mapVars, index, order, cmtx, now, itemsTTL, calls, refreshCalls, lastOp>>

\* Cache.GetOrRefresh (list cache): item.val = val
ListGetOrRefresh_Val(p) ==
    /\ pc(p) = "ListGetOrRefresh_Val"
    /\ elems' = [elems EXCEPT ![call[p].item].val = call[p].arg.val]
    /\ Goto(p, [call[p] EXCEPT !.pc = "ListGetOrRefresh_Exp"])
    /\ UNCHANGED <<schedVars, mapVars, index, order, cmtx, now, itemsTTL, calls, refreshCalls, lastOp>>

\* Cache.GetOrRefresh (list cache): item.exp = now().Add(c.ttl); item.mtx.Unlock()
ListGetOrRefresh_Exp(p) ==
    /\ pc(p) = "ListGetOrRefresh_Exp"
    /\ elems' = [elems EXCEPT ![call[p].item].exp = now + itemsTTL,
                              ![call[p].item].mtx = Free]
    /\ Goto(p, [call[p] EXCEPT !.pc = "ListGetOrRefresh_Move", !.exp = now + itemsTTL])
    /\ UNCHANGED <<schedVars, mapVars, index, order, cmtx, now, itemsTTL, calls, refreshCalls, lastOp>>

\* Cache.GetOrRefresh (list cache): c.mtx.Lock(); MoveToBack(element);
\* c.mtx.Unlock(); return val, nil
ListGetOrRefresh_Move(p) ==
    /\ pc(p) = "ListGetOrRefresh_Move"
    /\ cmtx = Free
    /\ order' = MoveToBack(order, call[p].item)
    /\ lastOp' = [lastOp EXCEPT ![call[p].key] =
                     [op |-> "Refresh", val |-> call[p].arg.val, exp |-> call[p].exp]]
    /\ Return(p, [op |-> "GetOrRefresh", key |-> call[p].key, val |-> call[p].arg.val,
                  err |-> NilErr])
    /\ UNCHANGED <<schedVars, mapVars, index, elems, cmtx, now, itemsTTL, calls, refreshCalls>>

\* a faulty sweep: it stops after the first element it removes
PurgedFirst ==
    {e \in Range(order) :
        /\ elems[e].mtx = Free /\ elems[e].exp < now
        /\ \A n \in 1..Len(order) :
               (elems[order[n]].mtx = Free /\ elems[order[n]].exp < now)
               => \A m \in 1..Len(order) : order[m] = e => m <= n}

\* the elements one sweep of Cache.Purge removes: those whose lock TryLock gets
\* and whose exp is before now()
Purged == {e \in Range(order) : elems[e].mtx = Free /\ elems[e].exp < now}

\* Cache.Purge: c.items.Remove(remove) for every element of the sweep
SweepOrder == SelectSeq(order, LAMBDA x : x \notin Purged)

\* Cache.Purge: delete(c.index, item.key) for every element of the sweep
SweepIndex == [k \in Keys |-> IF \E e \in Purged : elems[e].key = k THEN NoItem ELSE index[k]]

\* Cache.Purge (list cache): the whole sweep runs under c.mtx.Lock()
ListPurge(p) ==
    /\ Begin(p)
    /\ cmtx = Free
    /\ order' = SweepOrder
    /\ index' = SweepIndex
    /\ Return(p, [op |-> "Purge", key |-> NoKey])
    /\ UNCHANGED <<schedVars, mapVars, elems, cmtx, now, itemsTTL, refreshCalls, lastOp>>

\* a faulty test of an element in the sweep: the item's lock is not looked at
SweepsHeld(e) == elems[e].exp < now

\* Cache.Purge, one element: item.mtx.TryLock() succeeds and item.exp.Before(now())
Sweeps(e) == elems[e].mtx = Free /\ elems[e].exp < now

\* Cache.Purge, element by element. c.mtx.Lock(); element := c.items.Front()
ListPurge_Lock(p) ==
    /\ Begin(p)
    /\ cmtx = Free
    /\ cmtx' = p
    /\ Goto(p, [Idle EXCEPT !.pc = "ListPurge_Examine", !.cur = 1])
    /\ UNCHANGED <<schedVars, mapVars, index, order, elems, now, itemsTTL, refreshCalls, lastOp>>

\* Cache.Purge, the loop body for the element at the cursor: a failed TryLock
\* moves on at once; an expired element is removed from list and index, the
\* cursor then stands on its successor; item.mtx.Unlock()
ListPurge_Examine(p) ==
    /\ pc(p) = "ListPurge_Examine"
    /\ call[p].cur <= Len(order)
    /\ LET e == order[call[p].cur]
       IN  IF Sweeps(e)
           THEN /\ order' = Remove(order, e)
                /\ index' = [index EXCEPT ![elems[e].key] = NoItem]
                /\ UNCHANGED <<call, res>>
           ELSE /\ Goto(p, [call[p] EXCEPT !.cur = @ + 1])
                /\ UNCHANGED <<order, index>>
    /\ UNCHANGED <<schedVars, mapVars, elems, cmtx, now, itemsTTL, calls, refreshCalls, lastOp>>

\* Cache.Purge: element == nil ends the loop; the deferred c.mtx.Unlock()
ListPurge_Return(p) ==
    /\ pc(p) = "ListPurge_Examine"
    /\ call[p].cur > Len(order)
    /\ cmtx' = Free
    /\ Return(p, [op |-> "Purge", key |-> NoKey])
    /\ UNCHANGED <<schedVars, mapVars, index, order, elems, now, itemsTTL, calls, refreshCalls, lastOp>>

\* the owner of the context passed to New cancels it
Cancel ==
    /\ ~ctxDone
    /\ ctxDone' = TRUE
    /\ UNCHANGED <<mapVars, listVars, now, itemsTTL, calls, call, res, refreshCalls, lastOp,
                   sched, done>>

\* Cache.SchedulePurge: done := make(chan struct{}); go func() {...}(). Every
\* call starts a goroutine of its own, here the first one of Scheds that is not
\* yet in use, and returns a channel of its own; the goroutine enters the
\* select, which starts time.After(purgeInterval)
SchedulePurge(g, purgeInterval) ==
    /\ sched[g].pc = "none"
    /\ \A h \in Scheds : h < g => sched[h].pc # "none"
    /\ sched' = [sched EXCEPT ![g] = [pc |-> "select", interval |-> purgeInterval,
                                       armed |-> now]]
    /\ done' = [done EXCEPT ![g] = "open"]
    /\ UNCHANGED <<mapVars, listVars, now, itemsTTL, calls, call, res, refreshCalls, lastOp,
                   ctxDone>>

\* a faulty timer: it is ready at once
TimerFiredAtOnce(g) == TRUE

\* <-time.After(purgeInterval) is ready: the interval has elapsed since the
\* select was entered
TimerFired(g) == now >= sched[g].armed + sched[g].interval

\* SchedulePurge goroutine: the select takes case <-time.After(purgeInterval)
Sched_Timer(g) ==
    /\ sched[g].pc = "select"
    /\ TimerFired(g)
    /\ sched' = [sched EXCEPT ![g].pc = "Purge"]
    /\ UNCHANGED <<mapVars, listVars, now, itemsTTL, calls, call, res, refreshCalls, lastOp,
                   ctxDone, done>>

\* SchedulePurge goroutine: c.Purge() gets c.mtx and sweeps; the loop enters the
\* select again, which starts a new timer
Sched_Purge(g) ==
    /\ sched[g].pc = "Purge"
    /\ cmtx = Free
    /\ order' = SweepOrder
    /\ index' = SweepIndex
    /\ sched' = [sched EXCEPT ![g].pc = "select", ![g].armed = now]
    /\ UNCHANGED <<mapVars, elems, cmtx, now, itemsTTL, calls, call, res, refreshCalls, lastOp,
                   ctxDone, done>>

\* SchedulePurge goroutine: the select takes case <-c.ctx.Done(); return; the
\* deferred close(done)
Sched_Done(g) ==
    /\ sched[g].pc = "select"
    /\ ctxDone
    /\ sched' = [sched EXCEPT ![g].pc = "exited"]
    /\ done' = [done EXCEPT ![g] = "closed"]
    /\ UNCHANGED <<mapVars, listVars, now, itemsTTL, calls, call, res, refreshCalls, lastOp,
                   ctxDone>>

----
\* New: an empty cache with some TTL; every process is idle
Init ==
    /\ now = 1
    /\ itemsTTL \in 0..MaxTTL
    /\ calls = 0
    /\ data = [k \in Keys |-> NoItem]
    /\ items = <<>>
    /\ purgeLog = <<>>
    /\ index = [k \in Keys |-> NoItem]
    /\ order = <<>>
    /\ elems = <<>>
    /\ cmtx = Free
    /\ call = [p \in Procs |-> Idle]
    /\ res = [p \in Procs |-> NoRes]
    /\ refreshCalls = 0
    /\ lastOp = [k \in Keys |-> NoOp]
    /\ ctxDone = FALSE
    /\ sched = [g \in Scheds |-> NoSched]
    /\ done = [g \in Scheds |-> "none"]

\* any worker may make any call of the map cache at any time
Next ==
    \/ Tick
    \/ \E p \in Workers, k \in Keys : Get_Lookup(p, k)
    \/ \E p \in Workers : Get_Read(p)
    \/ \E p \in Workers, k \in Keys, v \in Vals : Set_Store(p, k, v)
    \/ \E p \in Workers : Set_Add(p)
    \/ \E p \in Workers, k \in Keys, fn \in RefreshFns : GetOrRefresh_GetOrCreate(p, k, fn)
    \/ \E p \in Workers : GetOrRefresh_Lock(p)
    \/ \E p \in Workers : GetOrRefresh_Refresh(p)
    \/ \E p \in Workers : GetOrRefresh_Add(p)
    \/ \E p \in Workers, k \in Keys : Delete_Lookup(p, k)
    \/ \E p \in Workers : Delete_Locked(p)

Spec == Init /\ [][Next]_vars

\* any worker may make any call of the list cache at any time
NextList ==
    \/ Tick
    \/ \E p \in Workers, k \in Keys : ListGet(p, k)
    \/ \E p \in Workers, k \in Keys, v \in Vals : ListSet_Begin(p, k, v)
    \/ \E p \in Workers : ListSet_Val(p)
    \/ \E p \in Workers : ListSet_Exp(p)
    \/ \E p \in Workers, k \in Keys : ListDel(p, k)
    \/ \E p \in Workers, k \in Keys, fn \in RefreshFns :
           ListGetOrRefresh_getOrCreateElement(p, k, fn)
    \/ \E p \in Workers : ListGetOrRefresh_Lock(p)
    \/ \E p \in Workers : ListGetOrRefresh_Refresh(p)
    \/ \E p \in Workers : ListGetOrRefresh_Val(p)
    \/ \E p \in Workers : ListGetOrRefresh_Exp(p)
    \/ \E p \in Workers : ListGetOrRefresh_Move(p)
    \/ \E p \in Workers : ListPurge(p)

SpecList == Init /\ [][NextList]_vars

\* A list cache in which k1 has no valid entry: no entry at all, or an entry
\* written and expired before the behaviour starts (its exp is before the clock's
\* first reading)
InitNoValidEntry ==
    /\ now = 1
    /\ itemsTTL \in 0..MaxTTL
    /\ calls = 0
    /\ data = [k \in Keys |-> NoItem]
    /\ items = <<>>
    /\ purgeLog = <<>>
    /\ cmtx = Free
    /\ call = [p \in Procs |-> Idle]
    /\ res = [p \in Procs |-> NoRes]
    /\ refreshCalls = 0
    /\ lastOp = [k \in Keys |-> NoOp]
    /\ ctxDone = FALSE
    /\ sched = [g \in Scheds |-> NoSched]
    /\ done = [g \in Scheds |-> "none"]
    /\ \/ index = [k \in Keys |-> NoItem] /\ order = <<>> /\ elems = <<>>
       \/ /\ index = [k \in Keys |-> IF k = "k1" THEN 1 ELSE NoItem]
          /\ order = <<1>>
          /\ \E v \in Vals :
                elems = <<[key |-> "k1", val |-> v, exp |-> ZeroTime, set |-> TRUE,
                           mtx |-> Free]>>

\* Singleflight scenario: each worker makes one GetOrRefresh call on k1 with a
\* refresh that succeeds, the clock stands still, and the goroutine started by
\* SchedulePurge (p3) may run Purge at any moment
NextSingleflight ==
    \/ \E p \in Workers, fn \in RefreshFns :
           /\ res[p] = NoRes
           /\ fn.err = NilErr
           /\ ListGetOrRefresh_getOrCreateElement(p, "k1", fn)
    \/ \E p \in Workers : ListGetOrRefresh_Lock(p)
    \/ \E p \in Workers : ListGetOrRefresh_Refresh(p)
    \/ \E p \in Workers : ListGetOrRefresh_Val(p)
    \/ \E p \in Workers : ListGetOrRefresh_Exp(p)
    \/ \E p \in Workers : ListGetOrRefresh_Move(p)
    \/ ListPurge("p3")

SpecSingleflight == InitNoValidEntry /\ [][NextSingleflight]_vars

\* GetOrRefresh, Get and Purge calls on the list cache: no Set, no Del
NextRefreshPurge ==
    \/ Tick
    \/ \E p \in Workers, k \in Keys : ListGet(p, k)
    \/ \E p \in Workers, k \in Keys, fn \in RefreshFns :
           ListGetOrRefresh_getOrCreateElement(p, k, fn)
    \/ \E p \in Workers : ListGetOrRefresh_Lock(p)
    \/ \E p \in Workers : ListGetOrRefresh_Refresh(p)
    \/ \E p \in Workers : ListGetOrRefresh_Val(p)
    \/ \E p \in Workers : ListGetOrRefresh_Exp(p)
    \/ \E p \in Workers : ListGetOrRefresh_Move(p)
    \/ \E p \in Workers : ListPurge(p)

SpecRefreshPurge == InitNoValidEntry /\ [][NextRefreshPurge]_vars

\* only GetOrRefresh calls, by three callers
NextRefresh ==
    \/ Tick
    \/ \E p \in Procs, k \in Keys, fn \in RefreshFns : GetOrRefresh_GetOrCreate(p, k, fn)
    \/ \E p \in Procs : GetOrRefresh_Lock(p)
    \/ \E p \in Procs : GetOrRefresh_Refresh(p)
    \/ \E p \in Procs : GetOrRefresh_Add(p)

SpecRefresh == Init /\ [][NextRefresh]_vars

\* The three-caller scenario on one key, the TTL never elapsing (no Tick):
\* call 1 (p1, refresh fails) goes first and runs its refresh; call 2 (p2,
\* refresh returns v2) starts once call 1 is in its refresh or over; call 3
\* (p3, whose refresh would return v2 as well) starts once call 2 has begun.
FailFn == [val |-> Zero, err |-> SomeErr]
V2Fn == [val |-> "v2", err |-> NilErr]

Call1 == calls = 0 /\ GetOrRefresh_GetOrCreate("p1", "k1", FailFn)
Call2 ==
    /\ calls = 1
    /\ pc("p1") # "GetOrRefresh_Lock"
    /\ GetOrRefresh_GetOrCreate("p2", "k1", V2Fn)
Call3 == calls = 2 /\ GetOrRefresh_GetOrCreate("p3", "k1", V2Fn)

NextThree ==
    \/ Call1
    \/ Call2
    \/ Call3
    \/ \E p \in Procs : GetOrRefresh_Lock(p)
    \/ \E p \in Procs : GetOrRefresh_Refresh(p)
    \/ \E p \in Procs : GetOrRefresh_Add(p)

SpecThree == Init /\ [][NextThree]_vars

\* one caller at a time: Set, GetOrRefresh, Update and Purge calls on the map
\* cache made by a single goroutine, so that no two operations overlap
NextPurgeAlone ==
    \/ Tick
    \/ \E k \in Keys, v \in Vals : Set_Store("p1", k, v)
    \/ Set_Add("p1")
    \/ \E k \in Keys, fn \in RefreshFns : GetOrRefresh_GetOrCreate("p1", k, fn)
    \/ GetOrRefresh_Lock("p1")
    \/ GetOrRefresh_Refresh("p1")
    \/ GetOrRefresh_Add("p1")
    \/ \E k \in Keys, fn \in UpdateFns : Update_GetOrCreate("p1", k, fn)
    \/ Update_Lock("p1")
    \/ Update_Apply("p1")
    \/ Purge_Begin("p1")
    \/ Purge_Next("p1")
    \/ Purge_DeleteExpired("p1")

SpecPurgeAlone == Init /\ [][NextPurgeAlone]_vars

\* Purge running while the workers call Set and GetOrRefresh on the map cache
NextPurge ==
    \/ Tick
    \/ \E p \in Workers, k \in Keys, v \in Vals : Set_Store(p, k, v)
    \/ \E p \in Workers : Set_Add(p)
    \/ \E p \in Workers, k \in Keys, fn \in RefreshFns : GetOrRefresh_GetOrCreate(p, k, fn)
    \/ \E p \in Workers : GetOrRefresh_Lock(p)
    \/ \E p \in Workers : GetOrRefresh_Refresh(p)
    \/ \E p \in Workers : GetOrRefresh_Add(p)
    \/ \E p \in Workers : Purge_Begin(p)
    \/ \E p \in Workers : Purge_Next(p)
    \/ \E p \in Workers : Purge_DeleteExpired(p)

SpecPurge == Init /\ [][NextPurge]_vars

\* Set and GetOrRefresh calls on the list cache under a fixed TTL: no Del, no Purge
NextSetRefresh ==
    \/ Tick
    \/ \E p \in Workers, k \in Keys, v \in Vals : ListSet_Begin(p, k, v)
    \/ \E p \in Workers : ListSet_Val(p)
    \/ \E p \in Workers : ListSet_Exp(p)
    \/ \E p \in Workers, k \in Keys, fn \in RefreshFns :
           ListGetOrRefresh_getOrCreateElement(p, k, fn)
    \/ \E p \in Workers : ListGetOrRefresh_Lock(p)
    \/ \E p \in Workers : ListGetOrRefresh_Refresh(p)
    \/ \E p \in Workers : ListGetOrRefresh_Val(p)
    \/ \E p \in Workers : ListGetOrRefresh_Exp(p)
    \/ \E p \in Workers : ListGetOrRefresh_Move(p)

SpecSetRefresh == Init /\ [][NextSetRefresh]_vars

\* Update and DeleteExpired calls next to Set and Get calls on the map cache
NextUpdate ==
    \/ Tick
    \/ \E p \in Workers, k \in Keys : Get_Lookup(p, k)
    \/ \E p \in Workers : Get_Read(p)
    \/ \E p \in Workers, k \in Keys, v \in Vals : Set_Store(p, k, v)
    \/ \E p \in Workers : Set_Add(p)
    \/ \E p \in Workers, k \in Keys, fn \in UpdateFns : Update_GetOrCreate(p, k, fn)
    \/ \E p \in Workers : Update_Lock(p)
    \/ \E p \in Workers : Update_Apply(p)
    \/ \E p \in Workers, k \in Keys : DeleteExpired_Lookup(p, k)
    \/ \E p \in Workers : DeleteExpired_Locked(p)

SpecUpdate == Init /\ [][NextUpdate]_vars

\* Del calls next to GetOrRefresh and Get calls on the list cache
NextDelRefresh ==
    \/ Tick
    \/ \E p \in Workers, k \in Keys : ListGet(p, k)
    \/ \E p \in Workers, k \in Keys : ListDel(p, k)
    \/ \E p \in Workers, k \in Keys, fn \in RefreshFns :
           ListGetOrRefresh_getOrCreateElement(p, k, fn)
    \/ \E p \in Workers : ListGetOrRefresh_Lock(p)
    \/ \E p \in Workers : ListGetOrRefresh_Refresh(p)
    \/ \E p \in Workers : ListGetOrRefresh_Val(p)
    \/ \E p \in Workers : ListGetOrRefresh_Exp(p)
    \/ \E p \in Workers : ListGetOrRefresh_Move(p)

SpecDelRefresh == Init /\ [][NextDelRefresh]_vars

\* GetOrRefresh calls by two callers while a third goroutine runs Purge element
\* by element
NextPurgeSkips ==
    \/ Tick
    \/ \E p \in Workers, k \in Keys, fn \in RefreshFns :
           ListGetOrRefresh_getOrCreateElement(p, k, fn)
    \/ \E p \in Workers : ListGetOrRefresh_Lock(p)
    \/ \E p \in Workers : ListGetOrRefresh_Refresh(p)
    \/ \E p \in Workers : ListGetOrRefresh_Val(p)
    \/ \E p \in Workers : ListGetOrRefresh_Exp(p)
    \/ \E p \in Workers : ListGetOrRefresh_Move(p)
    \/ ListPurge_Lock("p3")
    \/ ListPurge_Examine("p3")
    \/ ListPurge_Return("p3")

\* the goroutine inside Purge keeps running: no step of the loop blocks. Nothing
\* is assumed of the callers of GetOrRefresh: a refresh may never return.
SpecPurgeSkips ==
    /\ Init
    /\ [][NextPurgeSkips]_vars
    /\ WF_vars(ListPurge_Examine("p3") \/ ListPurge_Return("p3"))

\* one call of SchedulePurge and its goroutine next to a caller of Set; the
\* context may be cancelled at any moment
NextSchedule ==
    \/ Tick
    \/ Cancel
    \/ \E d \in 0..MaxInterval : SchedulePurge(1, d)
    \/ Sched_Timer(1)
    \/ Sched_Purge(1)
    \/ Sched_Done(1)
    \/ \E k \in Keys, v \in Vals : ListSet_Begin("p1", k, v)
    \/ ListSet_Val("p1")
    \/ ListSet_Exp("p1")

\* The scheduler goroutine keeps running. A select with several ready cases picks
\* one at random, so a case that is ready again and again is taken (SF); the
\* timer case is taken when it stays ready. sync.Mutex hands the lock to a
\* waiter that has waited long (starvation mode), so the Purge that waits for
\* c.mtx gets it (SF), and a Set that holds c.mtx runs on to its Unlock. Nothing
\* is assumed of the clock.
SpecSchedule ==
    /\ Init
    /\ [][NextSchedule]_vars
    /\ WF_vars(Sched_Timer(1))
    /\ SF_vars(Sched_Purge(1))
    /\ SF_vars(Sched_Done(1))
    /\ WF_vars(ListSet_Val("p1") \/ ListSet_Exp("p1"))

\* SchedulePurge called any number of times on one cache
NextScheduleAgain ==
    \/ Tick
    \/ Cancel
    \/ \E g \in Scheds, d \in 0..MaxInterval : SchedulePurge(g, d)
    \/ \E g \in Scheds : Sched_Timer(g)
    \/ \E g \in Scheds : Sched_Purge(g)
    \/ \E g \in Scheds : Sched_Done(g)
    \/ \E k \in Keys, v \in Vals : ListSet_Begin("p1", k, v)
    \/ ListSet_Val("p1")
    \/ ListSet_Exp("p1")

SpecScheduleAgain == Init /\ [][NextScheduleAgain]_vars

\* Get, Set, Del and GetOrRefresh calls by two callers while a third goroutine
\* runs Purge element by element
NextLocks ==
    \/ Tick
    \/ \E p \in Workers, k \in Keys : ListGet(p, k)
    \/ \E p \in Workers, k \in Keys, v \in Vals : ListSet_Begin(p, k, v)
    \/ \E p \in Workers : ListSet_Val(p)
    \/ \E p \in Workers : ListSet_Exp(p)
    \/ \E p \in Workers, k \in Keys : ListDel(p, k)
    \/ \E p \in Workers, k \in Keys, fn \in RefreshFns :
           ListGetOrRefresh_getOrCreateElement(p, k, fn)
    \/ \E p \in Workers : ListGetOrRefresh_Lock(p)
    \/ \E p \in Workers : ListGetOrRefresh_Refresh(p)
    \/ \E p \in Workers : ListGetOrRefresh_Val(p)
    \/ \E p \in Workers : ListGetOrRefresh_Exp(p)
    \/ \E p \in Workers : ListGetOrRefresh_Move(p)
    \/ ListPurge_Lock("p3")
    \/ ListPurge_Examine("p3")
    \/ ListPurge_Return("p3")

SpecLocks == Init /\ [][NextLocks]_vars

\* the next step of the list-cache call p is in
ListStep(p) ==
    \/ ListSet_Val(p)
    \/ ListSet_Exp(p)
    \/ ListGetOrRefresh_Lock(p)
    \/ ListGetOrRefresh_Refresh(p)
    \/ ListGetOrRefresh_Val(p)
    \/ ListGetOrRefresh_Exp(p)
    \/ ListGetOrRefresh_Move(p)
    \/ ListPurge_Examine(p)
    \/ ListPurge_Return(p)

\* the call p is in waits for a lock: it is unfinished and cannot take its step
Blocked(p) == pc(p) # "idle" /\ ~ENABLED ListStep(p)

\* p1 calls GetOrRefresh on k1; p2 calls Get and Set on any key and Del and
\* GetOrRefresh on k2
NextOtherKey ==
    \/ Tick
    \/ \E fn \in RefreshFns : ListGetOrRefresh_getOrCreateElement("p1", "k1", fn)
    \/ \E k \in Keys : ListGet("p2", k)
    \/ \E k \in Keys, v \in Vals : ListSet_Begin("p2", k, v)
    \/ ListDel("p2", "k2")
    \/ \E fn \in RefreshFns : ListGetOrRefresh_getOrCreateElement("p2", "k2", fn)
    \/ \E p \in Workers : ListSet_Val(p)
    \/ \E p \in Workers : ListSet_Exp(p)
    \/ \E p \in Workers : ListGetOrRefresh_Lock(p)
    \/ \E p \in Workers : ListGetOrRefresh_Refresh(p)
    \/ \E p \in Workers : ListGetOrRefresh_Val(p)
    \/ \E p \in Workers : ListGetOrRefresh_Exp(p)
    \/ \E p \in Workers : ListGetOrRefresh_Move(p)

\* the goroutine of p2 keeps running and its own refresh functions return.
\* Nothing is assumed of p1: its refresh may never return.
SpecOtherKey ==
    /\ Init
    /\ [][NextOtherKey]_vars
    /\ WF_vars(ListStep("p2"))

\* Cache.Set called on the key of p1's GetOrRefresh while p1's refresh function
\* is running
SetDuringRefresh(p, v) ==
    /\ pc("p1") = "GetOrRefresh_Refresh"
    /\ Set_Store(p, call["p1"].key, v)

\* Set during a refresh: p1 calls GetOrRefresh, p2 calls Set on the key of p1's
\* call while p1's refresh function is running, p3 calls Get
NextSetDuringRefresh ==
    \/ Tick
    \/ \E k \in Keys, fn \in RefreshFns : GetOrRefresh_GetOrCreate("p1", k, fn)
    \/ GetOrRefresh_Lock("p1")
    \/ GetOrRefresh_Refresh("p1")
    \/ GetOrRefresh_Add("p1")
    \/ \E v \in Vals : SetDuringRefresh("p2", v)
    \/ Set_Add("p2")
    \/ \E k \in Keys : Get_Lookup("p3", k)
    \/ Get_Read("p3")

SpecSetDuringRefresh == Init /\ [][NextSetDuringRefresh]_vars

----
\* steps of a call, as seen in a transition
Acts(p) == call'[p] # call[p] \/ res'[p] # res[p]

GetLooksUp(q, k) ==
    /\ pc(q) = "idle"
    /\ Acts(q)
    /\ \/ call'[q].pc = "Get_Read" /\ call'[q].key = k
       \/ call'[q].pc = "idle" /\ res'[q].op = "Get" /\ res'[q].key = k

GetReads(q, k) == pc(q) = "Get_Read" /\ call[q].key = k /\ call'[q].pc = "idle"

SetSteps(p, k) ==
    \/ pc(p) = "idle" /\ call'[p].pc = "Set_Add" /\ call'[p].key = k
    \/ pc(p) = "Set_Add" /\ call[p].key = k /\ call'[p].pc = "idle"

Refreshing(k) == {p \in Procs : pc(p) = "GetOrRefresh_Refresh" /\ call[p].key = k}

\* every process has made a GetOrRefresh call and it has returned
AllReturned == \A p \in Procs : pc(p) = "idle" /\ res[p].op = "GetOrRefresh"

\* both workers have made a GetOrRefresh call and it has returned
WorkersReturned == \A p \in Workers : pc(p) = "idle" /\ res[p].op = "GetOrRefresh"

ListGets(q, k) ==
    /\ pc(q) = "idle"
    /\ Acts(q)
    /\ call'[q].pc = "idle"
    /\ res'[q].op = "Get"
    /\ res'[q].key = k

\* C1: when the concurrent GetOrRefresh calls on a key without a valid entry have
\* all returned, refresh has been executed exactly once and all calls have
\* returned the same value.
Singleflight ==
    WorkersReturned =>
        /\ refreshCalls = 1
        /\ \A p, q \in Workers : res[p].val = res[q].val

\* C2: at most one execution of refresh per key is in progress at any time,
\* whatever the interleaving of GetOrRefresh calls and whatever the refreshes return.
RefreshMutualExclusion == \A k \in Keys : Cardinality(Refreshing(k)) <= 1

\* C3: a GetOrRefresh whose GetOrCreate found no entry and whose refresh fails
\* returns the zero value with the wrapped error and leaves no item for the key in
\* the map; a Get that then looks the key up returns (zero, false).
FailureCleanup ==
    [][ /\ \A p \in Procs :
              ( /\ pc(p) = "GetOrRefresh_Refresh"
                /\ call[p].itemIsNew
                /\ call[p].arg.err # NilErr
                /\ call'[p].pc = "idle" )
              => /\ res'[p] = [op |-> "GetOrRefresh", key |-> call[p].key, val |-> Zero,
                               err |-> Wrap("get val", SomeErr)]
                 /\ data'[call[p].key] = NoItem
        /\ \A q \in Procs, k \in Keys :
              (GetLooksUp(q, k) /\ lastOp[k].op = "Cleanup")
              => res'[q] = [op |-> "Get", key |-> k, val |-> Zero, ok |-> FALSE]
      ]_vars

FailureCleanupWitness ==
    \E q \in Procs :
        /\ res[q] = [op |-> "Get", key |-> "k1", val |-> Zero, ok |-> FALSE]
        /\ lastOp["k1"].op = "Cleanup"
        /\ data["k1"] = NoItem
        /\ Len(items) = 1

\* C4: in the three-caller scenario call 1 returns its error, calls 2 and 3 both
\* return v2, and refresh has been executed exactly twice.
ThreeCallers ==
    AllReturned =>
        /\ res["p1"] = [op |-> "GetOrRefresh", key |-> "k1", val |-> Zero,
                        err |-> Wrap("get val", SomeErr)]
        /\ res["p2"] = [op |-> "GetOrRefresh", key |-> "k1", val |-> "v2", err |-> NilErr]
        /\ res["p3"] = [op |-> "GetOrRefresh", key |-> "k1", val |-> "v2", err |-> NilErr]
        /\ refreshCalls = 2

\* C5: Get(k) on the list cache returns found = true exactly when the index holds
\* an entry for k whose set flag is true and now <= its exp; in every other case
\* it returns (zero, false).
ExpiryCorrectness ==
    [][ \A q \in Procs, k \in Keys :
            ListGets(q, k)
            => /\ res'[q].ok = ( /\ index[k] # NoItem
                                 /\ elems[index[k]].set
                                 /\ now <= elems[index[k]].exp )
               /\ ~res'[q].ok => res'[q].val = Zero
      ]_vars

ExpiryCorrectnessWitness ==
    \E q \in Procs, k \in Keys :
        /\ res[q].op = "Get" /\ res[q].key = k /\ res[q].ok
        /\ index[k] # NoItem
        /\ elems[index[k]].exp = now
        /\ now > 1

\* C6: a Get that reads the item of a key whose entry was last changed by
\* Set(k, v), under a positive TTL that has not elapsed, returns (v, true); the
\* steps of a Set on k leave what Get returns for every other key unchanged.
SetVisibleAndFrame ==
    [][ /\ \A q \in Procs, k \in Keys :
              ( /\ GetReads(q, k)
                /\ call[q].item = data[k]
                /\ lastOp[k].op = "Set"
                /\ itemsTTL > 0
                /\ now <= lastOp[k].exp )
              => res'[q] = [op |-> "Get", key |-> k, val |-> lastOp[k].val, ok |-> TRUE]
        /\ \A p \in Procs, k \in Keys :
              SetSteps(p, k) => \A k2 \in Keys \ {k} : Observe(k2)' = Observe(k2)
      ]_vars

SetVisibleAndFrameWitness ==
    /\ itemsTTL > 0
    /\ lastOp["k1"].op = "Set"
    /\ lastOp["k2"].op = "Set"
    /\ \E q \in Procs : res[q] = [op |-> "Get", key |-> "k2", val |-> lastOp["k2"].val,
                                  ok |-> TRUE]

\* C7: with TTL 0 a Get that reads an entry written by Set returns (zero, false)
\* whatever the clock reads, the instant of the Set included.
ZeroTTLNeverReadable ==
    [][ \A q \in Procs, k \in Keys :
            ( /\ GetReads(q, k)
              /\ call[q].item = data[k]
              /\ lastOp[k].op = "Set"
              /\ itemsTTL = 0 )
            => res'[q] = [op |-> "Get", key |-> k, val |-> Zero, ok |-> FALSE]
      ]_vars

\* C8: the step of Delete(k) that removes the key leaves no item for k, so that
\* Get(k) finds nothing, and leaves every other key's entry and what Get returns
\* for it unchanged; a Delete that finds no item changes nothing; a Get that looks
\* the key up after the Delete returns (zero, false).
DeleteRemovesVisibility ==
    [][ /\ \A p \in Procs, k \in Keys :
              (pc(p) = "Delete_Locked" /\ call[p].key = k /\ call'[p].pc = "idle")
              => /\ data'[k] = NoItem
                 /\ Observe(k)' = <<Zero, FALSE>>
                 /\ \A k2 \in Keys \ {k} :
                        data'[k2] = data[k2] /\ Observe(k2)' = Observe(k2)
        /\ \A p \in Procs :
              (pc(p) = "idle" /\ Acts(p) /\ call'[p].pc = "idle" /\ res'[p].op = "Delete")
              => UNCHANGED <<data, items, purgeLog>>
        /\ \A q \in Procs, k \in Keys :
              (GetLooksUp(q, k) /\ lastOp[k].op = "Delete")
              => res'[q] = [op |-> "Get", key |-> k, val |-> Zero, ok |-> FALSE]
      ]_vars

DeleteRemovesVisibilityWitness ==
    /\ lastOp["k1"].op = "Delete"
    /\ Len(items) = 1
    /\ items[1].exp >= now
    /\ \E q \in Procs : res[q] = [op |-> "Get", key |-> "k1", val |-> Zero, ok |-> FALSE]

\* C9: a GetOrRefresh that finds, under the item lock, an item that is set and
\* not expired returns the item's value with a nil error, invokes no refresh and
\* changes neither the item nor the map.
ValidEntryNoRefresh ==
    [][ \A p \in Procs :
            ( /\ pc(p) = "GetOrRefresh_Lock"
              /\ call'[p] # call[p]
              /\ items[call[p].item].exp # ZeroTime
              /\ now <= items[call[p].item].exp )
            => /\ res'[p] = [op |-> "GetOrRefresh", key |-> call[p].key,
                             val |-> items[call[p].item].val, err |-> NilErr]
               /\ call'[p].pc = "idle"
               /\ refreshCalls' = refreshCalls
               /\ UNCHANGED <<data, items>>
      ]_vars

ValidEntryNoRefreshWitness ==
    /\ refreshCalls = 0
    /\ lastOp["k1"].op = "Set"
    /\ \E p \in Procs : res[p] = [op |-> "GetOrRefresh", key |-> "k1",
                                  val |-> lastOp["k1"].val, err |-> NilErr]

\* C10: once a GetOrRefresh on a key without a valid entry has returned v with a
\* nil error, Get(k) returns (v, true) as long as the TTL has not elapsed, in
\* every interleaving with Purge (no Set and no Del runs at all).
RefreshStored ==
    [][ \A q \in Procs, k \in Keys :
            (ListGets(q, k) /\ lastOp[k].op = "Refresh" /\ now <= lastOp[k].exp)
            => res'[q] = [op |-> "Get", key |-> k, val |-> lastOp[k].val, ok |-> TRUE]
      ]_vars

\* the step in which Cache.Purge returns
PurgeReturns(p) == pc(p) = "Purge_Next" /\ call'[p].pc = "idle"

\* C11: when a Purge that ran with no other operation in progress returns, the
\* key map holds no key whose entry had expired when Purge was called, whether
\* Set, GetOrRefresh or Update wrote the entry.
PurgeCompleteness ==
    [][ \A p \in Procs :
            PurgeReturns(p)
            => \A k \in Keys :
                   data'[k] # NoItem => ~(call[p].exp > items'[data'[k]].exp)
      ]_vars

\* a step of Cache.Purge
PurgeSteps(p) == InPurge(p) /\ call'[p] # call[p]

\* C12: a step of Purge removes a key only if the item the map holds for it is
\* expired, and every key that is readable before the step is readable with the
\* same value after it.
PurgeSafety ==
    [][ \A p \in Procs :
            PurgeSteps(p)
            => \A k \in Keys :
                   /\ (data[k] # NoItem /\ data'[k] = NoItem) => IsExpired(data[k])
                   /\ Observe(k)[2] => Observe(k)' = Observe(k)
      ]_vars

\* a Purge call of the list cache, one step
ListPurges(p) == pc(p) = "idle" /\ Acts(p) /\ call'[p].pc = "idle" /\ res'[p].op = "Purge"

\* C13: a second Purge run right after a Purge (no write, no clock advance in
\* between) removes nothing: the state a Purge leaves is the state a further
\* sweep of it leaves; and a Purge of an empty cache changes nothing.
PurgeIdempotent ==
    [][ \A p \in Procs :
            ListPurges(p)
            => /\ SweepOrder' = order' /\ SweepIndex' = index'
               /\ order = <<>> => UNCHANGED <<index, order, elems>>
      ]_vars

PurgeIdempotentWitness ==
    /\ \E p \in Procs : pc(p) = "idle" /\ res[p].op = "Purge"
    /\ calls = 3
    /\ lastOp["k1"].op = "Set" /\ lastOp["k2"].op = "Set"
    /\ Len(elems) = 2
    /\ order = <<>>
    /\ index = [k \in Keys |-> NoItem]

\* C14: whenever no call is in progress, the items list is non-decreasing in exp
\* from head to tail.
SweepOrderSorted ==
    (\A p \in Procs : pc(p) = "idle")
    => \A m, n \in 1..Len(order) : m < n => elems[order[m]].exp <= elems[order[n]].exp

\* C15: whenever Cache.mtx is free, index and items list are in bijection: every
\* key of the index maps to an element of the list that carries that key, every
\* element of the list is what the index holds for its key, and no element is in
\* the list twice.
IndexOrderBijection ==
    cmtx = Free
    => /\ \A k \in Keys :
              index[k] # NoItem => index[k] \in Range(order) /\ elems[index[k]].key = k
       /\ \A n \in 1..Len(order) : index[elems[order[n]].key] = order[n]
       /\ \A m, n \in 1..Len(order) : order[m] = order[n] => m = n

IndexOrderBijectionWitness ==
    /\ cmtx = Free
    /\ Len(elems) = 2
    /\ elems[1].key = "k1" /\ elems[2].key = "k1"
    /\ order = <<2>>
    /\ index["k1"] = 2
    /\ lastOp["k1"].op = "Refresh"

\* C16: Update is told exists = true exactly when the key had an item. When the
\* update function returns set = true and no error, the item gets the new value,
\* is the key's item and Get would return the new value; nil is returned. In every
\* other case a key that had no item has none afterwards, a key that had one
\* keeps map entry, value and expiry, and the error, if any, is returned wrapped.
UpdateStoresIffSet ==
    [][ \A p \in Procs, k \in Keys :
            /\ (pc(p) = "idle" /\ call'[p].pc = "Update_Lock" /\ call'[p].key = k)
               => call'[p].itemIsNew = (data[k] = NoItem)
            /\ (pc(p) = "Update_Apply" /\ call[p].key = k /\ call'[p].pc = "idle")
               => /\ res'[p].exists = ~call[p].itemIsNew
                  /\ IF call[p].arg.set /\ call[p].arg.err = NilErr
                     THEN /\ res'[p].err = NilErr
                          /\ data'[k] = call[p].item
                          /\ Observe(k)' = <<call[p].arg.val, TRUE>>
                     ELSE /\ res'[p].err = IF call[p].arg.err = NilErr THEN NilErr
                                           ELSE Wrap("update val", call[p].arg.err)
                          /\ IF call[p].itemIsNew
                             THEN data'[k] = NoItem /\ Observe(k)' = <<Zero, FALSE>>
                             ELSE /\ data' = data
                                  /\ Observe(k)' = Observe(k)
                                  /\ items'[call[p].item].val = items[call[p].item].val
                                  /\ items'[call[p].item].exp = items[call[p].item].exp
      ]_vars

UpdateStoresIffSetWitness ==
    \E p, q \in Procs :
        /\ p # q
        /\ res[p] = [op |-> "Update", key |-> "k1", err |-> Wrap("update val", SomeErr),
                     exists |-> TRUE]
        /\ lastOp["k1"].op = "Set"
        /\ res[q] = [op |-> "Get", key |-> "k1", val |-> lastOp["k1"].val, ok |-> TRUE]

\* C17: the step of DeleteExpired(k) that holds the item lock removes k from the
\* map exactly when the map's item for k is expired; a key whose item is not
\* expired keeps its item and stays readable with its value.
DeleteExpiredIffExpired ==
    [][ \A p \in Procs, k \in Keys :
            (pc(p) = "DeleteExpired_Locked" /\ call[p].key = k /\ call'[p].pc = "idle")
            => IF data[k] # NoItem /\ IsExpired(data[k])
               THEN data'[k] = NoItem
               ELSE data'[k] = data[k] /\ Observe(k)' = Observe(k)
      ]_vars

\* C18: when a GetOrRefresh(k) whose refresh succeeded returns, also after a Del(k)
\* that ran during the refresh, k is in the index, its element is in the list
\* and the element holds the refreshed value.
DelDuringRefreshReinserts ==
    [][ \A p \in Procs, k \in Keys :
            (pc(p) = "ListGetOrRefresh_Move" /\ call[p].key = k /\ call'[p].pc = "idle")
            => /\ index'[k] # NoItem
               /\ index'[k] \in Range(order')
               /\ elems'[index'[k]].val = call[p].arg.val
      ]_vars

\* C19: Purge does not wait for an entry's lock. The loop step at an entry whose
\* lock is held leaves the entry in index and list and moves the cursor to the
\* next entry; at an entry that is free and expired it removes the entry; and a
\* Purge that holds the cache lock returns, whether or not a refresh that holds
\* an entry's lock ever completes.
PurgeSkipsHeld ==
    /\ [][ (/\ pc("p3") = "ListPurge_Examine" /\ call["p3"].cur <= Len(order)
             /\ (call'["p3"] # call["p3"] \/ order' # order))
            => LET e == order[call["p3"].cur]
               IN  /\ elems[e].mtx # Free
                      => /\ order' = order /\ index' = index
                         /\ call'["p3"].cur = call["p3"].cur + 1
                   /\ (elems[e].mtx = Free /\ elems[e].exp < now)
                      => /\ e \notin Range(order')
                         /\ index'[elems[e].key] = NoItem
                         /\ call'["p3"].cur = call["p3"].cur
          ]_vars
    /\ (pc("p3") = "ListPurge_Examine") ~> (pc("p3") = "idle")

PurgeSkipsHeldWitness ==
    /\ pc("p3") = "ListPurge_Examine"
    /\ call["p3"].cur = 2
    /\ Len(elems) = 2
    /\ order = <<1>>
    /\ index[elems[1].key] = 1
    /\ elems[1].exp < now
    /\ \E p \in Workers : elems[1].mtx = p /\ pc(p) = "ListGetOrRefresh_Refresh"

\* C20: the goroutine of SchedulePurge starts a Purge only when the interval has
\* elapsed since it entered the select; a timer that is ready leads to a Purge
\* (or, the context being cancelled, to the exit), and a Purge it started
\* completes; once the context is cancelled the goroutine eventually exits and
\* closes the done channel; after that it takes no step, so it calls Purge no
\* more.
SchedulePurgeRuns ==
    /\ [][ (sched[1].pc # "Purge" /\ sched'[1].pc = "Purge")
            => sched[1].pc = "select" /\ now >= sched[1].armed + sched[1].interval ]_vars
    /\ (sched[1].pc = "select" /\ now >= sched[1].armed + sched[1].interval)
           ~> (sched[1].pc = "Purge" \/ done[1] = "closed")
    /\ (sched[1].pc = "Purge") ~> (sched[1].pc = "select")
    /\ (ctxDone /\ done[1] = "open") ~> (done[1] = "closed")
    /\ [][ done[1] = "closed" => (sched' = sched /\ done'[1] = "closed") ]_vars
    /\ [](done[1] = "closed" <=> sched[1].pc = "exited")

SchedulePurgeRunsWitness ==
    /\ done[1] = "closed"
    /\ ctxDone
    /\ sched[1].interval = 1
    /\ Len(elems) = 1
    /\ order = <<>>
    /\ index = [k \in Keys |-> NoItem]

\* the goroutines of SchedulePurge that are running
Running == {g \in Scheds : sched[g].pc \in {"select", "Purge"}}

\* C21: at most one goroutine started by SchedulePurge is running at any time,
\* however many times SchedulePurge has been called on the cache.
OneSweepTask == Cardinality(Running) <= 1

\* C22: when the refresh of a GetOrRefresh whose GetOrCreate found an existing
\* item fails, the call returns the zero value with the wrapped error in that
\* very step, without running a refresh again; the map is unchanged, the item
\* keeps value and expiry, and a Get of the key returns what it returned before
\* the step: not found, when the map's item is the one the call holds.
RefreshFailureKeepsEntry ==
    [][ \A p \in Procs :
            ( /\ pc(p) = "GetOrRefresh_Refresh"
              /\ ~call[p].itemIsNew
              /\ call[p].arg.err # NilErr
              /\ Acts(p) )
            => /\ call'[p].pc = "idle"
               /\ res'[p] = [op |-> "GetOrRefresh", key |-> call[p].key, val |-> Zero,
                             err |-> Wrap("get val", call[p].arg.err)]
               /\ refreshCalls' = refreshCalls
               /\ data' = data
               /\ items'[call[p].item].val = items[call[p].item].val
               /\ items'[call[p].item].exp = items[call[p].item].exp
               /\ \A k \in Keys :
                      call[p].key = k
                      => /\ Observe(k)' = Observe(k)
                         /\ data[k] = call[p].item => Observe(k)' = <<Zero, FALSE>>
      ]_vars

RefreshFailureKeepsEntryWitness ==
    \E p \in Procs :
        /\ res[p] = [op |-> "GetOrRefresh", key |-> "k1", val |-> Zero,
                     err |-> Wrap("get val", SomeErr)]
        /\ lastOp["k1"].op = "Set"
        /\ Len(items) = 1
        /\ data["k1"] = 1
        /\ items[1].val = lastOp["k1"].val
        /\ items[1].exp = lastOp["k1"].exp
        /\ now > items[1].exp
        /\ refreshCalls = 1

\* C23: with refresh functions that return, whenever some call is unfinished
\* some unfinished call can take its next step, and the call that holds the
\* cache lock is never the one waiting, least of all for an entry lock.
DeadlockFree ==
    /\ (\E p \in Procs : pc(p) # "idle") => \E p \in Procs : pc(p) # "idle" /\ ~Blocked(p)
    /\ \A p \in Procs : cmtx = p => ~Blocked(p) /\ pc(p) # "ListGetOrRefresh_Lock"

DeadlockFreeWitness ==
    /\ cmtx = "p3"
    /\ pc("p3") = "ListPurge_Examine"
    /\ Blocked("p1")
    /\ pc("p1") = "ListGetOrRefresh_Lock"
    /\ elems[call["p1"].item].mtx = "p2"
    /\ pc("p2") = "ListGetOrRefresh_Refresh"

\* C24: whatever a GetOrRefresh of p1 on k1 does, and also if its refresh never
\* returns, no call of p2 (Get or Set on any key, Del or GetOrRefresh on k2) ever
\* waits for a lock, and every call p2 has started returns.
OtherKeysUnaffected ==
    /\ [](~Blocked("p2"))
    /\ (pc("p2") # "idle") ~> (pc("p2") = "idle")

OtherKeysUnaffectedWitness ==
    /\ pc("p1") = "ListGetOrRefresh_Refresh"
    /\ Len(elems) = 2
    /\ elems[1].key = "k1" /\ elems[1].mtx = "p1"
    /\ elems[2].key = "k2" /\ elems[2].mtx = Free
    /\ refreshCalls = 2
    /\ res["p2"] = [op |-> "GetOrRefresh", key |-> "k2", val |-> "v1", err |-> NilErr]
    /\ lastOp["k2"] = [op |-> "Refresh", val |-> "v1", exp |-> elems[2].exp]

\* C25: the loop step of Purge at an entry whose lock it got and that is not
\* expired ends the scan: after it Purge has returned or its cursor is past the
\* last entry, so that no entry behind that one is examined or removed.
PurgeStopsAtFirstLive ==
    [][ (/\ pc("p3") = "ListPurge_Examine" /\ call["p3"].cur <= Len(order)
         /\ call'["p3"] # call["p3"]
         /\ elems[order[call["p3"].cur]].mtx = Free
         /\ ~(elems[order[call["p3"].cur]].exp < now))
        => (call'["p3"].pc = "idle" \/ call'["p3"].cur > Len(order'))
      ]_vars

\* C26: a Get that returns found = true returns a value that a Set or a
\* successful refresh stored, never the zero value of a placeholder, in every
\* interleaving with GetOrRefresh and Set on the key.
NoPlaceholderRead ==
    [][ \A q \in Procs, k \in Keys :
            (ListGets(q, k) /\ res'[q].ok) => res'[q].val \in Vals
      ]_vars

\* C27: when Purge returns, the purge log holds no record whose exp is at or
\* before the now that Purge swept with, so that a later Purge does not visit a
\* record an earlier one has processed.
PurgeLogDrained ==
    [][ \A p \in Procs :
            PurgeReturns(p)
            => \A n \in 1..Len(purgeLog') : purgeLog'[n].exp > call[p].exp
      ]_vars

\* C28: when the refresh of a GetOrRefresh on k returns a value while Get(k)
\* would return the value of a Set that ran to completion during that refresh,
\* Get(k) returns the same after the step: the result of the refresh does not
\* replace the Set's value.
SetSurvivesOlderRefresh ==
    [][ \A p \in Procs, k \in Keys :
            ( /\ pc(p) = "GetOrRefresh_Refresh" /\ Acts(p) /\ call[p].key = k
              /\ call[p].arg.err = NilErr
              /\ lastOp[k].op = "Set"
              /\ \A q \in Procs : pc(q) # "Set_Add"
              /\ Observe(k) = <<lastOp[k].val, TRUE>> )
            => Observe(k)' = Observe(k)
      ]_vars

====
